---- MODULE Spec2Model ----
(***************************************************************************)
(* Model of the hivematrix-archive service: the snapshot store and its     *)
(* ingestion endpoint (app/routes.py), the job ledger and the bulk runner  *)
(* run_scheduled_snapshots (app/scheduler.py), and the scheduler config.   *)
(*                                                                         *)
(* Conventions.  A JSON object is a function whose DOMAIN is the set of    *)
(* keys present, so `f in data` is f \in DOMAIN data.  A JSON scalar that  *)
(* is handed to float() is a tagged record: [t |-> "num", v |-> n] for a   *)
(* number (n in thousandths, so 1005 is 1.005), [t |-> "str"] for a text   *)
(* that is no number.  A Numeric(10,2) column holds thousandths that are   *)
(* a multiple of ten.                                                      *)
(***************************************************************************)
EXTENDS Integers, Sequences, FiniteSets, TLC

VARIABLES
    snapshots,      \* table billing_snapshots (committed rows, in id order)
    line_items,     \* table snapshot_line_items (committed rows)
    req,            \* the JSON body of the last HTTP request
    resp,           \* the last HTTP response sent by a route
    posts,          \* POST /api/snapshot requests served statement by statement
    jobs,           \* table snapshot_jobs (committed rows), job id = position
    config,         \* table scheduled_snapshots (committed rows)
    run,            \* the invocation of run_scheduled_snapshots in progress
    writers,        \* writers of scheduled_snapshots served statement by statement
    main            \* the invocation of the cron script scheduled_snapshots.py

vars == <<snapshots, line_items, req, resp, posts, jobs, config, run, writers, main>>

(***************************************************************************)
(* Bounds of the model.                                                    *)
(***************************************************************************)
MaxItems == 2           \* line items carried by one payload
MaxCompanies == 2       \* company records the directory returns for a run
MaxJobs == 2            \* rows of snapshot_jobs
MaxRuns == 1            \* calls of run_scheduled_snapshots
MaxPosts == 2           \* POST /api/snapshot requests served statement by statement
MaxWriters == 2         \* writers of scheduled_snapshots served statement by statement

\* NULL / None of a text column; a nullable column of another type holds
\* None == <<>> or Some(v) == <<v>>.
Null == "NULL"
None == << >>
Some(v) == <<v>>

(***************************************************************************)
(* POST /api/snapshot: payloads.                                           *)
(***************************************************************************)
Num(n) == [t |-> "num", v |-> n]
Str == [t |-> "str"]

\* routes.py:102-103
required == <<"company_account_number", "billing_year", "billing_month",
              "invoice_number", "total_amount", "billing_data_json", "invoice_csv">>

RequiredSet == {required[i] : i \in DOMAIN required}

OptionalSet == {"company_name", "invoice_date", "due_date", "billing_plan",
                "contract_term", "support_level", "total_user_charges",
                "total_asset_charges", "total_backup_charges",
                "total_ticket_charges", "total_line_item_charges", "user_count",
                "asset_count", "billable_hours", "line_items", "created_by", "notes"}

AllKeys == RequiredSet \cup OptionalSet

Invoices == {"620547-202510", "183729-202510"}
Amounts == {Num(2450000), Num(1005), Str}

\* A line item that leaves line_type, description and quantity to their
\* defaults, and one that lacks the rate the handler indexes.
GoodItem == [item_name |-> "John Doe", rate |-> Num(100000), amount |-> Num(100000)]
NoRateItem == [item_name |-> "John Doe", amount |-> Num(100000)]
Items == {GoodItem, NoRateItem}

ItemLists == UNION {[1..n -> Items] : n \in 0..MaxItems}

\* The payload of the docstring example (routes.py:58-94), every key present.
FullPayload(inv, amt, items) ==
    [company_account_number |-> "620547", company_name |-> "Company Name",
     billing_year |-> 2025, billing_month |-> 10, invoice_number |-> inv,
     invoice_date |-> "2025-10-31", due_date |-> "2025-11-30",
     billing_plan |-> "MSP Platinum", contract_term |-> "1-Year",
     support_level |-> "All Inclusive", total_amount |-> amt,
     total_user_charges |-> Num(1700000), total_asset_charges |-> Num(375000),
     total_backup_charges |-> Num(75000), total_ticket_charges |-> Num(300000),
     total_line_item_charges |-> Num(0), user_count |-> 17, asset_count |-> 26,
     billable_hours |-> Num(3000), billing_data_json |-> [x |-> 1],
     invoice_csv |-> "a,b\n1,2", line_items |-> items,
     created_by |-> "admin@company.com", notes |-> "Manually accepted bill"]

Restrict(f, keys) == [k \in keys \cap DOMAIN f |-> f[k]]

KeySets ==
    {AllKeys, AllKeys \ {"line_items"}, RequiredSet, RequiredSet \cup {"invoice_date"},
     RequiredSet \cup {"invoice_date", "line_items"}, AllKeys \ {"invoice_date"}, {}}
      \cup {AllKeys \ {f} : f \in RequiredSet}

\* The requests of the model: the full payload with every amount and every
\* list of line items, and the payload restricted to every key set.
Payloads ==
    {FullPayload(inv, amt, items) :
        inv \in Invoices, amt \in Amounts, items \in ItemLists}
      \cup {Restrict(FullPayload(inv, Num(2450000), <<GoodItem>>), keys) :
                inv \in Invoices, keys \in KeySets}

(***************************************************************************)
(* POST /api/snapshot: the handler.                                        *)
(***************************************************************************)
\* dict.get(key, default)
Get(data, k, d) == IF k \in DOMAIN data THEN data[k] ELSE d

\* float(x) returns for a JSON number and raises ValueError for other text.
FloatOk(x) == x.t = "num"
Float(x) == x.v

\* A Numeric(10, 2) column keeps two fraction digits: the value is rounded
\* to the nearest hundredth when it is stored.
Numeric2(v) == ((v + 5) \div 10) * 10

\* json.dumps of the breakdown: the text of the object.
json_dumps(v) == <<"{", "\"x\"", ":", v.x, "}">>

\* g.user.get('email') if hasattr(g, 'user') else 'api'
CurrentUser == "api"

MoneyDefaults == {"total_user_charges", "total_asset_charges", "total_backup_charges",
                  "total_ticket_charges", "total_line_item_charges", "billable_hours"}

\* The BillingSnapshot(...) constructor call returns only if every float() does.
SnapshotBuilds(data) ==
    /\ FloatOk(data["total_amount"])
    /\ \A k \in MoneyDefaults : FloatOk(Get(data, k, Num(0)))

\* The row built by the BillingSnapshot(...) constructor call; archived_at is
\* the clock reading, which grows with every stored row.
NewSnapshot(data, id) ==
    [id |-> id,
     company_account_number |-> data["company_account_number"],
     company_name |-> Get(data, "company_name", "Unknown"),
     invoice_number |-> data["invoice_number"],
     billing_year |-> data["billing_year"],
     billing_month |-> data["billing_month"],
     invoice_date |-> Get(data, "invoice_date", Null),
     due_date |-> Get(data, "due_date", Null),
     archived_at |-> id,
     billing_plan |-> Get(data, "billing_plan", Null),
     contract_term |-> Get(data, "contract_term", Null),
     support_level |-> Get(data, "support_level", Null),
     total_amount |-> Numeric2(Float(data["total_amount"])),
     total_user_charges |-> Numeric2(Float(Get(data, "total_user_charges", Num(0)))),
     total_asset_charges |-> Numeric2(Float(Get(data, "total_asset_charges", Num(0)))),
     total_backup_charges |-> Numeric2(Float(Get(data, "total_backup_charges", Num(0)))),
     total_ticket_charges |-> Numeric2(Float(Get(data, "total_ticket_charges", Num(0)))),
     total_line_item_charges |->
         Numeric2(Float(Get(data, "total_line_item_charges", Num(0)))),
     user_count |-> Get(data, "user_count", 0),
     asset_count |-> Get(data, "asset_count", 0),
     billable_hours |-> Numeric2(Float(Get(data, "billable_hours", Num(0)))),
     billing_data_json |-> json_dumps(data["billing_data_json"]),
     invoice_csv |-> data["invoice_csv"],
     created_by |-> Get(data, "created_by", CurrentUser),
     notes |-> Get(data, "notes", Null)]

\* The text columns of billing_snapshots declared nullable=False.  (The
\* integer and numeric NOT NULL columns are always given a value by the
\* constructor: the payloads of the model carry no JSON null.)
NotNullText == {"company_account_number", "company_name", "invoice_number",
                "invoice_date", "invoice_csv"}

\* db.session.flush() of a new snapshot row: the INSERT is refused
\* (IntegrityError) on a NULL in a NOT NULL column or on a second row with
\* the same invoice_number (unique=True).
FlushOk(table, row) ==
    /\ \A c \in NotNullText : row[c] # Null
    /\ \A i \in DOMAIN table : table[i].invoice_number # row.invoice_number

\* The SnapshotLineItem(...) constructor call returns only if the item has
\* the keys it indexes and every float() returns.
LineItemBuilds(item) ==
    /\ {"item_name", "rate", "amount"} \subseteq DOMAIN item
    /\ FloatOk(Get(item, "quantity", Num(1000)))
    /\ FloatOk(item["rate"])
    /\ FloatOk(item["amount"])

NewLineItem(item, id, snapshot_id) ==
    [id |-> id,
     snapshot_id |-> snapshot_id,
     line_type |-> Get(item, "line_type", "custom"),
     item_name |-> item["item_name"],
     description |-> Get(item, "description", Null),
     quantity |-> Numeric2(Float(Get(item, "quantity", Num(1000)))),
     rate |-> Numeric2(Float(item["rate"])),
     amount |-> Numeric2(Float(item["amount"]))]

\* The rows the loop over data['line_items'] adds to the session.
NewLineItems(data, first_id, snapshot_id) ==
    LET items == Get(data, "line_items", <<>>)
    IN  [i \in DOMAIN items |-> NewLineItem(items[i], first_id + i - 1, snapshot_id)]

\* A handler that skips the look-up of the invoice number.
ExistingSnapshot_NoLookup(table, inv) == {}

\* first() of the query filter_by(invoice_number=...)
ExistingSnapshot(table, inv) == {i \in DOMAIN table : table[i].invoice_number = inv}

missing(data) == SelectSeq(required, LAMBDA f : f \notin DOMAIN data)

\* A handler that overwrites the stored row of an invoice that exists.
CreateSnapshotResult_Upsert(table, items, data) ==
    LET unchanged(st, body) ==
            [status |-> st, body |-> body, snapshots |-> table, line_items |-> items]
        existing == ExistingSnapshot(table, data["invoice_number"])
        id == IF existing = {} THEN Len(table) + 1 ELSE CHOOSE i \in existing : TRUE
    IN  IF DOMAIN data = {} \/ missing(data) # <<>>
          THEN unchanged(400, <<"Missing required fields">>)
        ELSE IF ~SnapshotBuilds(data) \/ (\E c \in NotNullText : NewSnapshot(data, id)[c] = Null)
          THEN unchanged(500, <<"Error">>)
        ELSE IF existing # {}
          THEN [status |-> 200,
                body |-> <<"Snapshot updated", id, data["invoice_number"]>>,
                snapshots |-> [table EXCEPT ![id] =
                                  [NewSnapshot(data, id) EXCEPT !.notes = "updated"]],
                line_items |-> items]
        ELSE [status |-> 201,
              body |-> <<"Snapshot created successfully", id, data["invoice_number"]>>,
              snapshots |-> Append(table, NewSnapshot(data, id)),
              line_items |-> items \o NewLineItems(data, Len(items) + 1, id)]

\* The response of create_snapshot to `data` on the store <<table, items>>,
\* and the store it leaves: [status, body, snapshots, line_items].  An
\* exception that no handler catches ends the request with a 500 and the
\* session is discarded with everything it had flushed.
CreateSnapshotResult(table, items, data) ==
    LET unchanged(st, body) ==
            [status |-> st, body |-> body, snapshots |-> table, line_items |-> items]
        id == Len(table) + 1
    IN  IF DOMAIN data = {}
          THEN unchanged(400, <<"No data provided">>)
        ELSE IF missing(data) # <<>>
          THEN unchanged(400, <<"Missing required fields">> \o missing(data))
        ELSE IF ExistingSnapshot(table, data["invoice_number"]) # {}
          THEN unchanged(409, <<"Snapshot already exists for invoice",
                                data["invoice_number"]>>)
        ELSE IF ~SnapshotBuilds(data)
          THEN unchanged(500, <<"ValueError">>)
        ELSE IF ~FlushOk(table, NewSnapshot(data, id))
          THEN unchanged(500, <<"IntegrityError">>)
        ELSE IF \E i \in DOMAIN Get(data, "line_items", <<>>) :
                    ~LineItemBuilds(data["line_items"][i])
          THEN unchanged(500, <<"KeyError">>)
        ELSE [status |-> 201,
              body |-> <<"Snapshot created successfully", id, data["invoice_number"]>>,
              snapshots |-> Append(table, NewSnapshot(data, id)),
              line_items |-> items \o NewLineItems(data, Len(items) + 1, id)]

create_snapshot(data) ==
    LET r == CreateSnapshotResult(snapshots, line_items, data)
    IN  /\ snapshots' = r.snapshots
        /\ line_items' = r.line_items
        /\ req' = data
        /\ resp' = [route |-> "create_snapshot", status |-> r.status, body |-> r.body]
        /\ UNCHANGED <<posts, jobs, config, run, writers, main>>

PostSnapshot == \E data \in Payloads : create_snapshot(data)

NoResponse == [route |-> "none", status |-> 0, body |-> <<>>]

(***************************************************************************)
(* The job ledger and run_scheduled_snapshots (app/scheduler.py).          *)
(***************************************************************************)
Accounts == {"620547", "183729"}

\* datetime.now().isoformat()
Now == "2025-11-01T02:00:00"

\* The account_numbers argument: None, or a list of account numbers.
NoAccounts == [given |-> FALSE, list |-> <<>>]
AccountList(l) == [given |-> TRUE, list |-> l]
AccountArgs ==
    {NoAccounts} \cup {AccountList(l) : l \in UNION {[1..n -> Accounts] : n \in 0..MaxCompanies}}

\* A test that takes every list, the empty one too, as given.
Truthy_GivenOnly(account_numbers) == account_numbers.given

\* Python truth of the argument: None and [] are both false.
Truthy(account_numbers) == account_numbers.given /\ account_numbers.list # <<>>

\* Company records of the directory service: with an account_number, or
\* without one.
CompanyOf(acc) == [account_number |-> acc]
Nameless == [name |-> "No Account Ltd"]
CompanyRecords == {CompanyOf(a) : a \in Accounts} \cup {Nameless}
CompanyLists == UNION {[1..n -> CompanyRecords] : n \in 0..MaxCompanies}

\* The answers of the billing service to POST /api/bill/accept: a status
\* code, or 0 when call_service raises instead of returning.
BillingAnswers == {201, 409, 500, 0}
Raised == 0

\* A new SnapshotJob row as its first commit stores it: the columns the
\* constructor does not set take their defaults.
NewJob(id, job_type, year, month, account_numbers, triggered_by) ==
    [id |-> id,
     job_type |-> job_type,
     status |-> "running",
     target_year |-> year,
     target_month |-> month,
     target_account_numbers |->
         IF Truthy(account_numbers) THEN Some(account_numbers.list) ELSE None,
     total_companies |-> 0,
     completed_companies |-> 0,
     failed_companies |-> 0,
     started_at |-> Now,
     completed_at |-> Null,
     output |-> None,
     error |-> Null,
     success |-> None,
     triggered_by |-> triggered_by]

Idle == [pc |-> "idle"]

\* The cron script has not been started.
NotInvoked == [pc |-> "idle"]

\* The locals of run_scheduled_snapshots after line 40; calls is the list
\* of the calls made to the billing service, each with its answer.
NewRun(job_id, year, month, account_numbers) ==
    [pc |-> "resolve", job_id |-> job_id, year |-> year, month |-> month,
     account_numbers |-> account_numbers, companies |-> <<>>, i |-> 1,
     success_count |-> 0, failed_count |-> 0, errors |-> <<>>, calls |-> <<>>,
     exception |-> Null, last_run_count |-> None, ret |-> None]

\* Lines 28-40: the job row is created and committed.
RunStart(year, month, account_numbers) ==
    /\ run.pc \in {"idle", "returned", "raised"}
    /\ Len(jobs) < MaxJobs
    /\ Cardinality({j \in DOMAIN jobs : jobs[j].job_type = "scheduled"}) < MaxRuns
    /\ jobs' = Append(jobs, NewJob(Len(jobs) + 1, "scheduled", year, month,
                                   account_numbers, "scheduler"))
    /\ run' = NewRun(Len(jobs) + 1, year, month, account_numbers)
    /\ UNCHANGED <<snapshots, line_items, req, resp, posts, config, writers, main>>

\* Lines 131-139 are entered with the text of the exception.
Raise(text) == [run EXCEPT !.pc = "except", !.exception = text]

\* A loop without the test of line 49: the body of every answer is kept.
Found_KeepsMisses(list, found) ==
    LET F[n \in 0..Len(list)] ==
            IF n = 0 THEN <<>>
            ELSE IF n \in found THEN Append(F[n - 1], CompanyOf(list[n]))
            ELSE Append(F[n - 1], [error |-> "Company not found"])
    IN  F[Len(list)]

\* Lines 46-50: the records of the identifiers the directory answers 200 for.
Found(list, found) ==
    LET F[n \in 0..Len(list)] ==
            IF n = 0 THEN <<>>
            ELSE IF n \in found THEN Append(F[n - 1], CompanyOf(list[n]))
            ELSE F[n - 1]
    IN  F[Len(list)]

\* A runner without the test of line 58.
Resolved_NoEmptyCase(companies) ==
    /\ jobs' = [jobs EXCEPT ![run.job_id].total_companies = Len(companies)]
    /\ run' = [run EXCEPT !.pc = "loop", !.companies = companies]

\* Lines 58-68, once companies is resolved: the empty set finalizes the job
\* and returns, any other commits the total and enters the loop.
Resolved(companies) ==
    IF companies = <<>>
      THEN /\ jobs' = [jobs EXCEPT ![run.job_id] =
                          [@ EXCEPT !.status = "completed", !.completed_at = Now,
                                    !.total_companies = 0, !.completed_companies = 0,
                                    !.success = Some(TRUE)]]
           /\ run' = [run EXCEPT !.pc = "returned",
                                 !.ret = Some(<<run.job_id, TRUE, "No companies to snapshot">>)]
      ELSE /\ jobs' = [jobs EXCEPT ![run.job_id].total_companies = Len(companies)]
           /\ run' = [run EXCEPT !.pc = "loop", !.companies = companies]

\* Lines 44-50 and 58-68 with an explicit list: one directory call per
\* identifier, `found` the positions answered 200.
RunResolveList(found) ==
    /\ run.pc = "resolve"
    /\ Truthy(run.account_numbers)
    /\ found \subseteq DOMAIN run.account_numbers.list
    /\ Resolved(Found(run.account_numbers.list, found))
    /\ UNCHANGED <<snapshots, line_items, req, resp, posts, config, writers, main>>

\* Lines 51-68 without a list: the directory's list-all call answers 200
\* with `companies`.
RunResolveAll(companies) ==
    /\ run.pc = "resolve"
    /\ ~Truthy(run.account_numbers)
    /\ Resolved(companies)
    /\ UNCHANGED <<snapshots, line_items, req, resp, posts, config, writers, main>>

\* Line 55: f"Failed to fetch companies from Codex: {response.status_code}"
FetchFailed(status) ==
    IF status = 404 THEN "Failed to fetch companies from Codex: 404"
    ELSE "Failed to fetch companies from Codex: 500"

\* Lines 53-55: the list-all call answers another status than 200.
RunResolveAllFails(status) ==
    /\ run.pc = "resolve"
    /\ ~Truthy(run.account_numbers)
    /\ status # 200
    /\ run' = Raise(FetchFailed(status))
    /\ UNCHANGED <<snapshots, line_items, req, resp, posts, jobs, config, writers, main>>

\* Lines 48 and 53: call_service raises instead of answering.
RunResolveRaises ==
    /\ run.pc = "resolve"
    /\ run' = Raise("ConnectionError")
    /\ UNCHANGED <<snapshots, line_items, req, resp, posts, jobs, config, writers, main>>

\* company.get('account_number') and the test of line 77
AccountOf(company) == Get(company, "account_number", Null)
HasAccount(company) == AccountOf(company) # Null

\* Lines 91-95: the answers counted as a success.
BillingSuccess_Only201(answer) == answer = 201
BillingSuccess(answer) == answer = 201 \/ answer = 409

\* response.text of an answer, str(e) of a raised call
AnswerText(answer) == IF answer = Raised THEN "ConnectionError" ELSE "Internal Server Error"

\* Lines 98 and 102: f"{account_number}: {text}"
ErrorString(account_number, text) == <<account_number, ": ", text>>

\* Line 105
Progress_SuccessOnly(success_count, failed_count) == success_count
\* A progress that counts the company about to be called as well.
Progress_CountsNext(success_count, failed_count) == success_count + failed_count + 1
Progress(success_count, failed_count) == success_count + failed_count

\* Lines 75-78, an iteration of the loop over a record without account
\* number: `continue`, with no call and no commit.
RunSkipCompany ==
    /\ run.pc = "loop"
    /\ run.i <= Len(run.companies)
    /\ ~HasAccount(run.companies[run.i])
    /\ run' = [run EXCEPT !.i = @ + 1]
    /\ UNCHANGED <<snapshots, line_items, req, resp, posts, jobs, config, writers, main>>

\* Lines 80-102: the locals after the call for `company` was answered.
Counted(company, answer) ==
    LET account_number == AccountOf(company)
        ok == BillingSuccess(answer)
    IN  [run EXCEPT
           !.i = @ + 1,
           !.success_count = IF ok THEN @ + 1 ELSE @,
           !.failed_count = IF ok THEN @ ELSE @ + 1,
           !.errors = IF ok THEN @
                      ELSE Append(@, ErrorString(account_number, AnswerText(answer))),
           !.calls = Append(@, [account_number |-> account_number, answer |-> answer])]

\* A loop that commits no progress.
RunCompany_NoProgressCommit(answer) ==
    /\ run.pc = "loop"
    /\ run.i <= Len(run.companies)
    /\ HasAccount(run.companies[run.i])
    /\ run' = Counted(run.companies[run.i], answer)
    /\ UNCHANGED <<snapshots, line_items, req, resp, posts, jobs, config, writers, main>>

\* A loop without the try of line 80: a failure leaves the loop.
RunCompany_AbortOnFailure(answer) ==
    /\ run.pc = "loop"
    /\ run.i <= Len(run.companies)
    /\ HasAccount(run.companies[run.i])
    /\ IF answer \in {201, 409}
         THEN /\ run' = Counted(run.companies[run.i], answer)
              /\ jobs' = [jobs EXCEPT ![run.job_id].completed_companies =
                                          run'.success_count + run'.failed_count]
         ELSE /\ run' = [Counted(run.companies[run.i], answer) EXCEPT
                           !.pc = "except", !.exception = "ConnectionError"]
              /\ UNCHANGED jobs
    /\ UNCHANGED <<snapshots, line_items, req, resp, posts, config, writers, main>>

\* Lines 75-106, an iteration of the loop over a record with an account
\* number: one call to the billing service, its answer is counted and the
\* progress is committed.
RunCompany(answer) ==
    /\ run.pc = "loop"
    /\ run.i <= Len(run.companies)
    /\ HasAccount(run.companies[run.i])
    /\ run' = Counted(run.companies[run.i], answer)
    /\ jobs' = [jobs EXCEPT ![run.job_id].completed_companies =
                                Progress(run'.success_count, run'.failed_count)]
    /\ UNCHANGED <<snapshots, line_items, req, resp, posts, config, writers, main>>

\* A finalization that stores the number of successes as the progress.
Finalized_SuccessesOnly(job) ==
    [job EXCEPT !.status = "completed", !.completed_at = Now,
                !.success = Some(run.failed_count = 0),
                !.completed_companies = run.success_count,
                !.output = Some([success_count |-> run.success_count,
                                 failed_count |-> run.failed_count,
                                 errors |-> run.errors])]

\* A finalization that leaves completed_at as it was.
Finalized_NoTimestamp(job) ==
    [job EXCEPT !.status = "completed",
                !.success = Some(run.failed_count = 0),
                !.output = Some([success_count |-> run.success_count,
                                 failed_count |-> run.failed_count,
                                 errors |-> run.errors])]

\* Lines 109-116: the attributes set on the job when the loop has ended.
Finalized(job) ==
    [job EXCEPT !.status = "completed", !.completed_at = Now,
                !.success = Some(run.failed_count = 0),
                !.output = Some([success_count |-> run.success_count,
                                 failed_count |-> run.failed_count,
                                 errors |-> run.errors])]

\* Lines 108-117: the job is finalized and committed.
RunFinalize ==
    /\ run.pc = "loop"
    /\ run.i > Len(run.companies)
    /\ jobs' = [jobs EXCEPT ![run.job_id] = Finalized(@)]
    /\ run' = [run EXCEPT !.pc = "config"]
    /\ UNCHANGED <<snapshots, line_items, req, resp, posts, config, writers, main>>

\* Lines 119-129: last_run_count is set on the config object of the session
\* (no commit follows in this function) and the result is returned.
RunReturn ==
    /\ run.pc = "config"
    /\ run' = [run EXCEPT
                 !.pc = "returned",
                 !.last_run_count = IF config # <<>> THEN Some(run.success_count) ELSE None,
                 !.ret = Some(<<run.job_id, run.failed_count = 0,
                                IF run.failed_count > 0 THEN "Completed with failures"
                                ELSE "Successfully created snapshots">>)]
    /\ UNCHANGED <<snapshots, line_items, req, resp, posts, jobs, config, writers, main>>

\* A handler that leaves the success flag as it was.
Failed_NoFlag(job, text) ==
    [job EXCEPT !.status = "failed", !.completed_at = Now, !.error = text]

\* Lines 133-136: the attributes the handler sets on the job.
Failed(job, text) ==
    [job EXCEPT !.status = "failed", !.completed_at = Now, !.success = Some(FALSE),
                !.error = text]

\* A handler that also clears the progress of the job.
RunExcept_ResetCounts ==
    /\ run.pc = "except"
    /\ jobs' = [jobs EXCEPT ![run.job_id] =
                   [Failed(@, run.exception) EXCEPT !.completed_companies = 0]]
    /\ run' = [run EXCEPT !.pc = "returned",
                          !.ret = Some(<<run.job_id, FALSE, "Scheduler error">>)]
    /\ UNCHANGED <<snapshots, line_items, req, resp, posts, config, writers, main>>

\* Lines 131-139: the handler marks the job failed, commits and returns.
RunExcept ==
    /\ run.pc = "except"
    /\ jobs' = [jobs EXCEPT ![run.job_id] = Failed(@, run.exception)]
    /\ run' = [run EXCEPT !.pc = "returned",
                          !.ret = Some(<<run.job_id, FALSE, "Scheduler error">>)]
    /\ UNCHANGED <<snapshots, line_items, req, resp, posts, config, writers, main>>

(***************************************************************************)
(* A database statement of run_scheduled_snapshots raises.  A commit that  *)
(* raises has rolled the session back: what it was to write is discarded   *)
(* and the committed rows stay as they were.                               *)
(***************************************************************************)
\* The commit of line 64 or of line 68 raises.
RunResolveCommitFails ==
    /\ run.pc = "resolve"
    /\ run' = Raise("OperationalError")
    /\ UNCHANGED <<snapshots, line_items, req, resp, posts, jobs, config, writers, main>>

\* The commit of line 106 raises, after the call of this iteration.
RunCompanyCommitFails(answer) ==
    /\ run.pc = "loop"
    /\ run.i <= Len(run.companies)
    /\ HasAccount(run.companies[run.i])
    /\ run' = [Counted(run.companies[run.i], answer) EXCEPT
                 !.pc = "except", !.exception = "OperationalError"]
    /\ UNCHANGED <<snapshots, line_items, req, resp, posts, jobs, config, writers, main>>

\* The commit of line 117 raises.
RunFinalizeCommitFails ==
    /\ run.pc = "loop"
    /\ run.i > Len(run.companies)
    /\ run' = Raise("OperationalError")
    /\ UNCHANGED <<snapshots, line_items, req, resp, posts, jobs, config, writers, main>>

\* The query of line 120 raises, after the commit of line 117.
RunReturnQueryFails ==
    /\ run.pc = "config"
    /\ run' = Raise("OperationalError")
    /\ UNCHANGED <<snapshots, line_items, req, resp, posts, jobs, config, writers, main>>

\* The commit of line 137 raises: the exception leaves the function.
RunExceptCommitFails ==
    /\ run.pc = "except"
    /\ run' = [run EXCEPT !.pc = "raised"]
    /\ UNCHANGED <<snapshots, line_items, req, resp, posts, jobs, config, writers, main>>

(***************************************************************************)
(* POST /api/snapshots/bulk/create (app/routes.py) and the default config  *)
(* of init_db.                                                             *)
(***************************************************************************)
BulkPayloads ==
    {<< >>, [year |-> 2025], [year |-> 2025, month |-> 10],
     [year |-> 2025, month |-> 10, account_numbers |-> <<>>],
     [year |-> 2025, month |-> 10, account_numbers |-> <<"620547">>]}

\* routes.py:352-380
create_bulk_snapshots(data) ==
    /\ req' = data
    /\ IF DOMAIN data = {} \/ "year" \notin DOMAIN data \/ "month" \notin DOMAIN data
         THEN /\ resp' = [route |-> "create_bulk_snapshots", status |-> 400,
                          body |-> <<"year and month are required">>]
              /\ UNCHANGED jobs
         ELSE /\ Len(jobs) < MaxJobs
              /\ jobs' = Append(jobs,
                     NewJob(Len(jobs) + 1, "bulk", data["year"], data["month"],
                            IF "account_numbers" \in DOMAIN data
                              THEN AccountList(data["account_numbers"]) ELSE NoAccounts,
                            CurrentUser))
              /\ resp' = [route |-> "create_bulk_snapshots", status |-> 202,
                          body |-> <<"Bulk snapshot job started", Len(jobs) + 1>>]
    /\ UNCHANGED <<snapshots, line_items, posts, config, run, writers, main>>

\* init_db.py:124-131
DefaultConfig ==
    [id |-> 1, enabled |-> TRUE, day_of_month |-> 1, hour |-> 2,
     snapshot_previous_month |-> TRUE, snapshot_all_companies |-> TRUE,
     last_run_at |-> Null, last_run_status |-> Null, last_run_count |-> 0,
     last_run_log |-> Null, created_at |-> Now, updated_at |-> Null]

\* init_db.py:120-133
init_db ==
    /\ config = <<>>
    /\ config' = <<DefaultConfig>>
    /\ UNCHANGED <<snapshots, line_items, req, resp, posts, jobs, run, writers, main>>

(***************************************************************************)
(* The reading routes of the archive (app/routes.py).                      *)
(***************************************************************************)
\* The invoices of the archive and the payloads that create them: for each
\* invoice the full payload, for the first also one with a total of three
\* fraction digits, for the second also one without the optional fields.
ArchiveInvoices == Invoices \cup {"620547-202511"}

PayloadFor(inv, amt) ==
    [FullPayload(inv, amt, <<GoodItem>>) EXCEPT
        !.company_account_number = IF inv = "183729-202510" THEN "183729" ELSE "620547",
        !.billing_month = IF inv = "620547-202511" THEN 11 ELSE 10]

ArchivePayloads ==
    {PayloadFor(inv, Num(2450000)) : inv \in ArchiveInvoices}
      \cup {PayloadFor("620547-202510", Num(1006)),
            Restrict(PayloadFor("183729-202510", Num(2450000)),
                     RequiredSet \cup {"invoice_date"})}

PostArchive == \E data \in ArchivePayloads : create_snapshot(data)

\* json.loads of the text json_dumps wrote.
json_loads(text) == [x |-> text[4]]

\* float() of a Numeric column read back from the database.
FloatOfNumeric(v) == v

\* routes.py:181-206
SnapshotData(snapshot) ==
    [id |-> snapshot.id,
     company_account_number |-> snapshot.company_account_number,
     company_name |-> snapshot.company_name,
     invoice_number |-> snapshot.invoice_number,
     billing_year |-> snapshot.billing_year,
     billing_month |-> snapshot.billing_month,
     invoice_date |-> snapshot.invoice_date,
     due_date |-> snapshot.due_date,
     archived_at |-> snapshot.archived_at,
     billing_plan |-> snapshot.billing_plan,
     contract_term |-> snapshot.contract_term,
     support_level |-> snapshot.support_level,
     total_amount |-> FloatOfNumeric(snapshot.total_amount),
     total_user_charges |-> FloatOfNumeric(snapshot.total_user_charges),
     total_asset_charges |-> FloatOfNumeric(snapshot.total_asset_charges),
     total_backup_charges |-> FloatOfNumeric(snapshot.total_backup_charges),
     total_ticket_charges |-> FloatOfNumeric(snapshot.total_ticket_charges),
     total_line_item_charges |-> FloatOfNumeric(snapshot.total_line_item_charges),
     user_count |-> snapshot.user_count,
     asset_count |-> snapshot.asset_count,
     billable_hours |-> FloatOfNumeric(snapshot.billable_hours),
     billing_data |-> json_loads(snapshot.billing_data_json),
     created_by |-> snapshot.created_by,
     notes |-> snapshot.notes]

\* The response of get_snapshot on the table: [status, body].
GetSnapshotResult(table, invoice_number) ==
    LET found == ExistingSnapshot(table, invoice_number)
    IN  IF found = {}
          THEN [status |-> 404, body |-> [error |-> "Snapshot not found"]]
          ELSE [status |-> 200,
                body |-> SnapshotData(table[CHOOSE i \in found : \A j \in found : i <= j])]

\* GET /api/snapshot/<invoice_number>
get_snapshot(invoice_number) ==
    LET r == GetSnapshotResult(snapshots, invoice_number)
    IN  /\ req' = [invoice_number |-> invoice_number]
        /\ resp' = [route |-> "get_snapshot", status |-> r.status, body |-> r.body]
        /\ UNCHANGED <<snapshots, line_items, posts, jobs, config, run, writers, main>>

(***************************************************************************)
(* POST /api/snapshot statement by statement, for requests that overlap.   *)
(* Each request has its own session: the rows it has flushed are pending   *)
(* in its transaction until the commit of line 160 writes them to the      *)
(* tables; an exception that reaches Flask ends the request with a 500 and *)
(* the teardown discards the session.                                      *)
(***************************************************************************)
RacePayloads ==
    {FullPayload(inv, amt, items) :
        inv \in Invoices, amt \in {Num(2450000), Str},
        items \in {<<>>, <<GoodItem>>, <<GoodItem, NoRateItem>>}}
      \cup {Restrict(FullPayload(inv, Num(2450000), <<GoodItem>>), keys) :
                inv \in Invoices,
                keys \in {RequiredSet, AllKeys \ {"invoice_csv"}, AllKeys \ {"line_items"}}}

NewPost(data) ==
    [pc |-> "check", data |-> data, id |-> 0, snapshot |-> None, items |-> <<>>,
     status |-> 0, error |-> Null]

\* The response is sent and the session of the request is removed.
Respond(p, status, error) ==
    [posts EXCEPT ![p] = [@ EXCEPT !.pc = "done", !.snapshot = None, !.items = <<>>,
                                   !.status = status, !.error = error]]

\* The ids the sequence of billing_snapshots.id has handed out.
UsedIds == {0} \cup {snapshots[i].id : i \in DOMAIN snapshots}
               \cup {posts[p].id : p \in DOMAIN posts}

NextId == 1 + CHOOSE m \in UsedIds : \A n \in UsedIds : n <= m

\* The sessions other than p's that hold a flushed, uncommitted snapshot.
Pending(p) == {q \in DOMAIN posts \ {p} : posts[q].snapshot # None}

\* routes.py:96-107
PostBegin(data) ==
    /\ Len(posts) < MaxPosts
    /\ posts' = Append(posts,
           IF DOMAIN data = {} \/ missing(data) # <<>>
             THEN [NewPost(data) EXCEPT !.pc = "done", !.status = 400,
                                        !.error = "Missing required fields"]
             ELSE NewPost(data))
    /\ UNCHANGED <<snapshots, line_items, req, resp, jobs, config, run, writers, main>>

\* routes.py:109-112: the look-up sees the committed rows.
PostCheck(p) ==
    /\ posts[p].pc = "check"
    /\ posts' = IF ExistingSnapshot(snapshots, posts[p].data["invoice_number"]) # {}
                  THEN Respond(p, 409, "Snapshot already exists")
                  ELSE [posts EXCEPT ![p].pc = "build"]
    /\ UNCHANGED <<snapshots, line_items, req, resp, jobs, config, run, writers, main>>

\* routes.py:114-143: the constructor, add and flush.  The INSERT waits
\* while another transaction holds an uncommitted row with the same
\* invoice_number, and is refused once that row is committed.  Neither the
\* constructor nor the flush is inside a try.
PostFlush(p) ==
    LET data == posts[p].data
        row == NewSnapshot(data, NextId)
    IN  /\ posts[p].pc = "build"
        /\ IF ~SnapshotBuilds(data)
             THEN posts' = Respond(p, 500, "ValueError")
           ELSE IF ~FlushOk(snapshots, row)
             THEN posts' = Respond(p, 500, "IntegrityError")
           ELSE /\ \A q \in Pending(p) :
                      posts[q].snapshot[1].invoice_number # row.invoice_number
                /\ posts' = [posts EXCEPT ![p] = [@ EXCEPT !.pc = "items", !.id = row.id,
                                                           !.snapshot = Some(row)]]
        /\ UNCHANGED <<snapshots, line_items, req, resp, jobs, config, run, writers, main>>

\* routes.py:145-157: the line items are added to the session.
PostLineItems(p) ==
    LET data == posts[p].data
    IN  /\ posts[p].pc = "items"
        /\ posts' =
             IF \E i \in DOMAIN Get(data, "line_items", <<>>) :
                    ~LineItemBuilds(data["line_items"][i])
               THEN Respond(p, 500, "KeyError")
               ELSE [posts EXCEPT ![p] = [@ EXCEPT !.pc = "commit",
                                            !.items = Get(data, "line_items", <<>>)]]
        /\ UNCHANGED <<snapshots, line_items, req, resp, jobs, config, run, writers, main>>

\* The rows a commit writes for the session of request p: [snapshots, line_items].
Committed_SnapshotOnly(p) ==
    [snapshots |-> Append(snapshots, posts[p].snapshot[1]), line_items |-> line_items]

Committed(p) ==
    [snapshots |-> Append(snapshots, posts[p].snapshot[1]),
     line_items |-> line_items \o
         [i \in DOMAIN posts[p].items |->
             NewLineItem(posts[p].items[i], Len(line_items) + i, posts[p].id)]]

\* routes.py:159-165
PostCommit(p) ==
    /\ posts[p].pc = "commit"
    /\ snapshots' = Committed(p).snapshots
    /\ line_items' = Committed(p).line_items
    /\ posts' = Respond(p, 201, Null)
    /\ UNCHANGED <<req, resp, jobs, config, run, writers, main>>

\* routes.py:166-168: the commit raises and the session is rolled back.
PostCommitFails(p) ==
    /\ posts[p].pc = "commit"
    /\ posts' = Respond(p, 500, "OperationalError")
    /\ UNCHANGED <<snapshots, line_items, req, resp, jobs, config, run, writers, main>>

\* The INSERT of line 143 gives up waiting for the lock another writer
\* holds (sqlite: database is locked).
PostFlushLocked(p) ==
    /\ posts[p].pc = "build"
    /\ Pending(p) # {}
    /\ posts' = Respond(p, 500, "OperationalError")
    /\ UNCHANGED <<snapshots, line_items, req, resp, jobs, config, run, writers, main>>

PostStep ==
    \/ \E data \in RacePayloads : PostBegin(data)
    \/ \E p \in DOMAIN posts : PostCheck(p)
    \/ \E p \in DOMAIN posts : PostFlush(p)
    \/ \E p \in DOMAIN posts : PostLineItems(p)
    \/ \E p \in DOMAIN posts : PostCommit(p)

PostFault ==
    \/ \E p \in DOMAIN posts : PostCommitFails(p)
    \/ \E p \in DOMAIN posts : PostFlushLocked(p)

\* The query strings of GET /api/snapshots/search: every key is optional;
\* limit and offset are texts of integers, already read as integers here.
SearchFilters ==
    {<< >>, [account_number |-> "620547"], [account_number |-> "183729", month |-> 10],
     [year |-> 2024], [month |-> 11, from_date |-> 2], [to_date |-> 1]}

SearchLimits == {-1, 0, 1, 1001}
SearchOffsets == {-1, 1, 3}

SearchArgs ==
    {f @@ l @@ o :
        f \in SearchFilters,
        l \in {<< >>} \cup {[limit |-> n] : n \in SearchLimits},
        o \in {<< >>} \cup {[offset |-> n] : n \in SearchOffsets}}

\* The database of the connection string (app/__init__.py:28-29).
Backends == {"sqlite", "postgresql"}

\* routes.py:254-267: the rows (positions of the table) the filters keep.
Filtered(table, args) ==
    {i \in DOMAIN table :
        /\ "account_number" \in DOMAIN args =>
               table[i].company_account_number = args["account_number"]
        /\ "year" \in DOMAIN args => table[i].billing_year = args["year"]
        /\ "month" \in DOMAIN args => table[i].billing_month = args["month"]
        /\ "from_date" \in DOMAIN args => table[i].archived_at >= args["from_date"]
        /\ "to_date" \in DOMAIN args => table[i].archived_at <= args["to_date"]}

\* order_by(archived_at.desc()) of the rows in `rows`, as a sequence of
\* positions.
RECURSIVE OrderedDesc(_, _)
OrderedDesc(table, rows) ==
    IF rows = {} THEN << >>
    ELSE LET i == CHOOSE r \in rows :
                      \A q \in rows : table[q].archived_at <= table[r].archived_at
         IN  <<i>> \o OrderedDesc(table, rows \ {i})

Min(a, b) == IF a <= b THEN a ELSE b

\* LIMIT limit OFFSET offset on the ordered rows.  sqlite reads a negative
\* LIMIT as no limit and a negative OFFSET as 0; postgresql refuses both.
Page(ordered, limit, offset, backend) ==
    LET first == IF offset < 0 THEN 1 ELSE offset + 1
        last == IF limit < 0 THEN Len(ordered) ELSE Min(Len(ordered), first + limit - 1)
    IN  IF first > last THEN << >> ELSE SubSeq(ordered, first, last)

PageRefused(limit, offset, backend) ==
    backend = "postgresql" /\ (limit < 0 \/ offset < 0)

\* routes.py:283-295
SearchResult(s) ==
    [id |-> s.id,
     company_account_number |-> s.company_account_number,
     company_name |-> s.company_name,
     invoice_number |-> s.invoice_number,
     billing_year |-> s.billing_year,
     billing_month |-> s.billing_month,
     invoice_date |-> s.invoice_date,
     archived_at |-> s.archived_at,
     total_amount |-> FloatOfNumeric(s.total_amount),
     user_count |-> s.user_count,
     asset_count |-> s.asset_count]

\* GET /api/snapshots/search (routes.py:238-302); an exception of the
\* query is not caught and ends the request with a 500.
search_snapshots(args, backend) ==
    LET limit == Min(Get(args, "limit", 100), 1000)
        offset == Get(args, "offset", 0)
        query == OrderedDesc(snapshots, Filtered(snapshots, args))
        total == Len(query)
        page == Page(query, limit, offset, backend)
    IN  /\ req' = args
        /\ resp' = IF PageRefused(limit, offset, backend)
                     THEN [route |-> "search_snapshots", status |-> 500,
                           body |-> [error |-> "Internal Server Error"]]
                     ELSE [route |-> "search_snapshots", status |-> 200,
                           body |-> [total |-> total, limit |-> limit, offset |-> offset,
                                     results |-> [k \in DOMAIN page |->
                                                     SearchResult(snapshots[page[k]])]]]
        /\ UNCHANGED <<snapshots, line_items, posts, jobs, config, run, writers, main>>

(***************************************************************************)
(* GET and POST /api/scheduler/config (app/routes.py).  A value handed to  *)
(* int() is a tagged record: a JSON integer, a text that reads as an       *)
(* integer, or (Str) a text that does not.                                 *)
(***************************************************************************)
IntVal(n) == [t |-> "int", v |-> n]
IntText(n) == [t |-> "text", v |-> n]

\* int(x) returns for an integer and for its text, and raises ValueError
\* for other text.
IntOk(x) == x.t \in {"int", "text"}
IntOf(x) == x.v

ConfigFields == {"enabled", "day_of_month", "hour", "snapshot_previous_month",
                 "snapshot_all_companies"}

ConfigValues ==
    [enabled |-> {TRUE, FALSE},
     day_of_month |-> {IntVal(15), IntText(28), Str},
     hour |-> {IntVal(3)},
     snapshot_previous_month |-> {FALSE},
     snapshot_all_companies |-> {TRUE, FALSE}]

\* The bodies that carry field k, or not.
ConfigField(k) == {<< >>} \cup {[f \in {k} |-> v] : v \in ConfigValues[k]}

\* Every JSON body with a subset of the five fields.
ConfigPayloads ==
    {e @@ d @@ h @@ p @@ a :
        e \in ConfigField("enabled"), d \in ConfigField("day_of_month"),
        h \in ConfigField("hour"), p \in ConfigField("snapshot_previous_month"),
        a \in ConfigField("snapshot_all_companies")}

\* ScheduledSnapshot(created_at=...) as its INSERT stores it: the other
\* columns take their defaults (models.py:109-125).
NewConfig ==
    [id |-> 1, enabled |-> TRUE, day_of_month |-> 1, hour |-> 2,
     snapshot_previous_month |-> TRUE, snapshot_all_companies |-> TRUE,
     last_run_at |-> Null, last_run_status |-> Null, last_run_count |-> 0,
     last_run_log |-> Null, created_at |-> Now, updated_at |-> Null]

\* A handler that writes every field, the absent ones with their defaults.
Merged_Overwrite(row, data) ==
    [f \in DOMAIN row |->
        IF f \in {"day_of_month", "hour"} \cap DOMAIN data THEN IntOf(data[f])
        ELSE IF f \in ConfigFields \cap DOMAIN data THEN data[f]
        ELSE IF f = "updated_at" THEN Now
        ELSE NewConfig[f]]

\* routes.py:416-427: the assignments to the row.
Merged(row, data) ==
    [f \in DOMAIN row |->
        IF f \in {"day_of_month", "hour"} \cap DOMAIN data THEN IntOf(data[f])
        ELSE IF f \in ConfigFields \cap DOMAIN data THEN data[f]
        ELSE IF f = "updated_at" THEN Now
        ELSE row[f]]

\* routes.py:394-406
ConfigBody(row) ==
    [id |-> row.id, enabled |-> row.enabled, day_of_month |-> row.day_of_month,
     hour |-> row.hour, snapshot_previous_month |-> row.snapshot_previous_month,
     snapshot_all_companies |-> row.snapshot_all_companies,
     last_run_at |-> row.last_run_at, last_run_status |-> row.last_run_status,
     last_run_count |-> row.last_run_count]

\* routes.py:385-434.  The int() calls are outside the try: a ValueError
\* ends the request with a 500 and the session is discarded.
scheduler_config(method, data) ==
    /\ req' = data
    /\ IF method = "GET"
         THEN /\ resp' = [route |-> "scheduler_config", status |-> 200,
                          body |-> [config |-> IF config = <<>> THEN << >>
                                                ELSE <<ConfigBody(config[1])>>]]
              /\ UNCHANGED config
       ELSE IF \E f \in {"day_of_month", "hour"} \cap DOMAIN data : ~IntOk(data[f])
         THEN /\ resp' = [route |-> "scheduler_config", status |-> 500,
                          body |-> [error |-> "ValueError"]]
              /\ UNCHANGED config
       ELSE /\ config' = <<Merged(IF config = <<>> THEN NewConfig ELSE config[1], data)>>
            /\ resp' = [route |-> "scheduler_config", status |-> 200,
                        body |-> [message |-> "Scheduler configuration updated"]]
    /\ UNCHANGED <<snapshots, line_items, posts, jobs, run, writers, main>>

\* The rows of scheduled_snapshots the service starts from: none, the row
\* of init_db, or that row after the cron script recorded a run
\* (scheduled_snapshots.py:103-120).
ConfigRows ==
    {DefaultConfig,
     [DefaultConfig EXCEPT !.last_run_at = Now, !.last_run_status = "success",
                           !.last_run_count = 2]}

InitConfig ==
    /\ snapshots = <<>>
    /\ line_items = <<>>
    /\ req = << >>
    /\ resp = NoResponse
    /\ posts = <<>>
    /\ jobs = <<>>
    /\ config \in {<<>>} \cup {<<row>> : row \in ConfigRows}
    /\ run = Idle
    /\ writers = <<>>
    /\ main = NotInvoked

NextConfig ==
    \/ init_db
    \/ scheduler_config("GET", << >>)
    \/ \E data \in ConfigPayloads : scheduler_config("POST", data)

SpecConfig == InitConfig /\ [][NextConfig]_vars

\* routes.py:221-223: the company name with every character that is not
\* alphanumeric, blank, '_' or '-' removed and blanks turned into '_'.
safe_name(company_name) ==
    CASE company_name = "Company Name" -> "Company_Name"
      [] company_name = "Unknown" -> "Unknown"
      [] OTHER -> company_name

\* GET /api/snapshot/<invoice_number>/csv (routes.py:211-233)
download_snapshot_csv(invoice_number) ==
    LET found == ExistingSnapshot(snapshots, invoice_number)
        snapshot == snapshots[CHOOSE i \in found : \A j \in found : i <= j]
    IN  /\ req' = [invoice_number |-> invoice_number]
        /\ resp' = IF found = {}
                     THEN [route |-> "download_snapshot_csv", status |-> 404,
                           body |-> [error |-> "Snapshot not found"]]
                     ELSE [route |-> "download_snapshot_csv", status |-> 200,
                           body |-> [csv |-> snapshot.invoice_csv,
                                     filename |-> <<safe_name(snapshot.company_name), "_",
                                                    snapshot.billing_year, "-",
                                                    snapshot.billing_month, ".csv">>]]
        /\ UNCHANGED <<snapshots, line_items, posts, jobs, config, run, writers, main>>

\* order_by(billing_year.desc(), billing_month.desc()) of the rows in `rows`.
RECURSIVE OrderedByPeriod(_, _)
OrderedByPeriod(table, rows) ==
    IF rows = {} THEN << >>
    ELSE LET later(a, b) ==
                 \/ table[a].billing_year > table[b].billing_year
                 \/ /\ table[a].billing_year = table[b].billing_year
                    /\ table[a].billing_month > table[b].billing_month
                 \/ /\ table[a].billing_year = table[b].billing_year
                    /\ table[a].billing_month = table[b].billing_month
                    /\ a <= b
             i == CHOOSE r \in rows : \A q \in rows : later(r, q)
         IN  <<i>> \o OrderedByPeriod(table, rows \ {i})

\* GET /api/snapshots/company/<account_number> (routes.py:305-333)
get_company_snapshots(account_number) ==
    LET rows == OrderedByPeriod(snapshots,
                    {i \in DOMAIN snapshots :
                        snapshots[i].company_account_number = account_number})
    IN  /\ req' = [account_number |-> account_number]
        /\ resp' = [route |-> "get_company_snapshots", status |-> 200,
                    body |-> [company_account_number |-> account_number,
                              company_name |-> IF rows = << >> THEN Null
                                               ELSE snapshots[rows[1]].company_name,
                              total_snapshots |-> Len(rows),
                              snapshots |->
                                  [k \in DOMAIN rows |->
                                      [id |-> snapshots[rows[k]].id,
                                       invoice_number |-> snapshots[rows[k]].invoice_number,
                                       billing_year |-> snapshots[rows[k]].billing_year,
                                       billing_month |-> snapshots[rows[k]].billing_month,
                                       invoice_date |-> snapshots[rows[k]].invoice_date,
                                       archived_at |-> snapshots[rows[k]].archived_at,
                                       total_amount |->
                                           FloatOfNumeric(snapshots[rows[k]].total_amount),
                                       billing_plan |-> snapshots[rows[k]].billing_plan,
                                       contract_term |-> snapshots[rows[k]].contract_term]]]]
        /\ UNCHANGED <<snapshots, line_items, posts, jobs, config, run, writers, main>>

\* scheduler.py:142-171 and routes.py:449-463: the fields of a job the two
\* job routes report.
JobData(job) ==
    [id |-> job.id, job_type |-> job.job_type, status |-> job.status,
     target_year |-> job.target_year, target_month |-> job.target_month,
     total_companies |-> job.total_companies,
     completed_companies |-> job.completed_companies,
     started_at |-> job.started_at, completed_at |-> job.completed_at,
     success |-> job.success, triggered_by |-> job.triggered_by,
     output |-> job.output]

\* GET /api/scheduler/jobs (routes.py:437-465).  The rows are ordered by
\* started_at, latest first: the latest job is the last created.
list_scheduler_jobs(limit, offset) ==
    LET n == Len(jobs)
        latest_first == [k \in 1..n |-> n + 1 - k]
        page == Page(latest_first, Min(limit, 100), offset, "sqlite")
    IN  /\ req' = [limit |-> limit, offset |-> offset]
        /\ resp' = [route |-> "list_scheduler_jobs", status |-> 200,
                    body |-> [jobs |-> [k \in DOMAIN page |-> JobData(jobs[page[k]])]]]
        /\ UNCHANGED <<snapshots, line_items, posts, jobs, config, run, writers, main>>

\* GET /api/scheduler/jobs/<job_id> (routes.py:468-479, scheduler.py:142-171)
get_job_status(job_id) ==
    /\ req' = [job_id |-> job_id]
    /\ resp' = IF job_id \in DOMAIN jobs
                 THEN [route |-> "get_job_status", status |-> 200,
                       body |-> [JobData(jobs[job_id]) EXCEPT !.output = jobs[job_id].output]
                                  @@ [error |-> jobs[job_id].error]]
                 ELSE [route |-> "get_job_status", status |-> 404,
                       body |-> [error |-> "Job not found"]]
    /\ UNCHANGED <<snapshots, line_items, posts, jobs, config, run, writers, main>>

\* The calls of the service as a whole: a few inputs of every operation.
ServicePayloads ==
    {PayloadFor("620547-202510", Num(2450000)),
     Restrict(PayloadFor("183729-202510", Num(2450000)), AllKeys \ {"line_items"})}

ServiceCall ==
    \/ \E data \in ServicePayloads : create_snapshot(data)
    \/ get_snapshot("620547-202510")
    \/ download_snapshot_csv("620547-202510")
    \/ search_snapshots([limit |-> 1, offset |-> 1], "sqlite")
    \/ get_company_snapshots("620547")
    \/ create_bulk_snapshots([year |-> 2025, month |-> 10])
    \/ scheduler_config("GET", << >>)
    \/ scheduler_config("POST", [enabled |-> FALSE])
    \/ list_scheduler_jobs(50, 0)
    \/ get_job_status(1)

(***************************************************************************)
(* The writers of scheduled_snapshots statement by statement: a POST       *)
(* /api/scheduler/config request (routes.py:408-434) or a run of init_db   *)
(* (init_db.py:120-133).  Each first reads the table, then writes what it  *)
(* decided on that reading.  The table has no constraint besides its       *)
(* primary key.                                                            *)
(***************************************************************************)
WriterPayloads == {[enabled |-> FALSE], [day_of_month |-> IntVal(15)], [hour |-> Str]}

NewWriter(kind, data) ==
    [kind |-> kind, pc |-> "query", data |-> data, found |-> FALSE, status |-> 0]

\* The request arrives, or the script is started.
WriterBegin(kind, data) ==
    /\ Len(writers) < MaxWriters
    /\ writers' = Append(writers, NewWriter(kind, data))
    /\ UNCHANGED <<snapshots, line_items, req, resp, posts, jobs, config, run, main>>

\* ScheduledSnapshot.query.first() (routes.py:410, init_db.py:121) and the
\* statements up to the commit: init_db has nothing to do when it found a
\* row, the route answers 500 when an int() raises.
WriterQuery(w) ==
    LET found == config # <<>>
        data == writers[w].data
    IN  /\ writers[w].pc = "query"
        /\ writers' =
             [writers EXCEPT ![w] =
                 IF writers[w].kind = "init_db"
                   THEN [@ EXCEPT !.pc = IF found THEN "done" ELSE "commit",
                                  !.found = found]
                 ELSE IF \E f \in {"day_of_month", "hour"} \cap DOMAIN data :
                             ~IntOk(data[f])
                   THEN [@ EXCEPT !.pc = "done", !.found = found, !.status = 500]
                 ELSE [@ EXCEPT !.pc = "commit", !.found = found]]
        /\ UNCHANGED <<snapshots, line_items, req, resp, posts, jobs, config, run, main>>

\* The table after the commit of writer w: the row it read is updated, or
\* the row it added is inserted.
Written(w) ==
    IF writers[w].kind = "init_db"
      THEN Append(config, [DefaultConfig EXCEPT !.id = Len(config) + 1])
    ELSE IF writers[w].found
      THEN [config EXCEPT ![1] = Merged(@, writers[w].data)]
    ELSE Append(config, [Merged(NewConfig, writers[w].data) EXCEPT !.id = Len(config) + 1])

\* db.session.commit() (routes.py:430, init_db.py:132)
WriterCommit(w) ==
    /\ writers[w].pc = "commit"
    /\ config' = Written(w)
    /\ writers' = [writers EXCEPT ![w] = [@ EXCEPT !.pc = "done", !.status = 200]]
    /\ UNCHANGED <<snapshots, line_items, req, resp, posts, jobs, run, main>>

WriterStep ==
    \/ \E data \in WriterPayloads : WriterBegin("scheduler_config", data)
    \/ WriterBegin("init_db", << >>)
    \/ \E w \in DOMAIN writers : WriterQuery(w)
    \/ \E w \in DOMAIN writers : WriterCommit(w)

(***************************************************************************)
(* The cron script scheduled_snapshots.py.                                 *)
(***************************************************************************)
\* The command line: --year, --month (None when not given), --all,
\* --accounts (None, or the pieces between the commas of its text: the
\* empty text has the one piece "") and --dry-run.
Args(year, month, all, accounts, dry_run) ==
    [year |-> year, month |-> month, all |-> all, accounts |-> accounts,
     dry_run |-> dry_run]

MainArgs ==
    {Args(None, None, FALSE, None, FALSE),
     Args(Some(2025), Some(10), FALSE, None, FALSE),
     Args(Some(2025), None, FALSE, None, FALSE),
     Args(None, None, TRUE, None, FALSE),
     Args(None, None, FALSE, Some(<<"620547", " 183729">>), FALSE),
     Args(None, None, FALSE, Some(<<"">>), FALSE),
     Args(None, None, FALSE, None, TRUE),
     Args(Some(2025), Some(10), FALSE, Some(<<"620547">>), TRUE)}

\* datetime.now() of line 69: year and month.
Clocks == {[year |-> 2025, month |-> 11], [year |-> 2026, month |-> 1]}

\* str.strip() of a piece of the --accounts text.
strip(piece) == IF piece = " 183729" THEN "183729" ELSE piece

\* scheduled_snapshots.py:52, 57: args.year and args.month
Manual(args) ==
    /\ args.year # None /\ args.year # Some(0)
    /\ args.month # None /\ args.month # Some(0)

\* scheduled_snapshots.py:81: the truth value of args.accounts, false for
\* the option left out and for the empty text.
AccountsGiven(args) == args.accounts # None /\ args.accounts # Some(<<"">>)

\* scheduled_snapshots.py:57-76: the target period.
TargetPeriod(args, cfg, now) ==
    IF Manual(args) THEN [year |-> args.year[1], month |-> args.month[1]]
    ELSE IF cfg.snapshot_previous_month
      THEN (IF now.month = 1 THEN [year |-> now.year - 1, month |-> 12]
            ELSE [year |-> now.year, month |-> now.month - 1])
    ELSE [year |-> now.year, month |-> now.month]

\* scheduled_snapshots.py:81-89: the target companies, None when there is
\* none to run for.
TargetAccounts(args, cfg) ==
    IF AccountsGiven(args)
      THEN Some(AccountList([k \in DOMAIN args.accounts[1] |-> strip(args.accounts[1][k])]))
    ELSE IF args.all \/ cfg.snapshot_all_companies THEN Some(NoAccounts)
    ELSE None

Exited(args, code) ==
    [pc |-> "exited", args |-> args, year |-> 0, month |-> 0,
     account_numbers |-> NoAccounts, code |-> code]

\* scheduled_snapshots.py:44-96: the script from its start to the call of
\* run_scheduled_snapshots, or to the sys.exit before it.
MainStart(args, now) ==
    /\ main.pc = "idle"
    /\ main' =
         IF config = <<>> THEN Exited(args, 1)
         ELSE IF ~config[1].enabled /\ ~Manual(args) THEN Exited(args, 0)
         ELSE IF TargetAccounts(args, config[1]) = None THEN Exited(args, 1)
         ELSE IF args.dry_run THEN Exited(args, 0)
         ELSE [pc |-> "call", args |-> args,
               year |-> TargetPeriod(args, config[1], now).year,
               month |-> TargetPeriod(args, config[1], now).month,
               account_numbers |-> TargetAccounts(args, config[1])[1],
               code |-> 0]
    /\ UNCHANGED <<snapshots, line_items, req, resp, posts, jobs, config, run, writers>>

\* scheduled_snapshots.py:98-102: the call of run_scheduled_snapshots.
MainCall ==
    /\ main.pc = "call"
    /\ run.pc = "idle"
    /\ RunStart(main.year, main.month, main.account_numbers)

\* A script that records every run as a success.
LastRun_AlwaysSuccess(row, success, last_run_count) ==
    [row EXCEPT !.last_run_at = Now,
                !.last_run_status = "success",
                !.last_run_count = IF last_run_count = None THEN @ ELSE last_run_count[1]]

\* scheduled_snapshots.py:104-120: the attributes the commit writes to the
\* config row, with the last_run_count run_scheduled_snapshots left
\* pending in the session (scheduler.py:120-122).
LastRun(row, success, last_run_count) ==
    [row EXCEPT !.last_run_at = Now,
                !.last_run_status = IF success THEN "success" ELSE "failed",
                !.last_run_count = IF last_run_count = None THEN @ ELSE last_run_count[1]]

\* scheduled_snapshots.py:104-122: the run has returned; the last run is
\* recorded and committed and the script exits.
MainFinish ==
    /\ main.pc = "call"
    /\ run.pc = "returned"
    /\ config' = [config EXCEPT ![1] = LastRun(@, run.ret[1][2], run.last_run_count)]
    /\ main' = [main EXCEPT !.pc = "exited", !.code = IF run.ret[1][2] THEN 0 ELSE 1]
    /\ UNCHANGED <<snapshots, line_items, req, resp, posts, jobs, run, writers>>

\* The config rows the script may find.
CronConfigs ==
    {DefaultConfig, [DefaultConfig EXCEPT !.enabled = FALSE],
     [DefaultConfig EXCEPT !.snapshot_all_companies = FALSE],
     [DefaultConfig EXCEPT !.snapshot_previous_month = FALSE]}

InitCron ==
    /\ snapshots = <<>>
    /\ line_items = <<>>
    /\ req = << >>
    /\ resp = NoResponse
    /\ posts = <<>>
    /\ jobs = <<>>
    /\ config \in {<<>>} \cup {<<row>> : row \in CronConfigs}
    /\ run = Idle
    /\ writers = <<>>
    /\ main = NotInvoked

Years == {2025}
Months == {10}

RunStep ==
    \/ \E found \in SUBSET (1..MaxCompanies) : RunResolveList(found)
    \/ \E companies \in CompanyLists : RunResolveAll(companies)
    \/ \E status \in {404, 500} : RunResolveAllFails(status)
    \/ RunResolveRaises
    \/ RunSkipCompany
    \/ \E answer \in BillingAnswers : RunCompany(answer)
    \/ RunFinalize
    \/ RunReturn
    \/ RunExcept

RunFault ==
    \/ RunResolveCommitFails
    \/ \E answer \in BillingAnswers : RunCompanyCommitFails(answer)
    \/ RunFinalizeCommitFails
    \/ RunReturnQueryFails
    \/ RunExceptCommitFails

Init ==
    /\ snapshots = <<>>
    /\ line_items = <<>>
    /\ req = << >>
    /\ resp = NoResponse
    /\ posts = <<>>
    /\ jobs = <<>>
    /\ config = <<>>
    /\ run = Idle
    /\ writers = <<>>
    /\ main = NotInvoked

\* The ingestion endpoint alone.
NextIngest == PostSnapshot

SpecIngest == Init /\ [][NextIngest]_vars

\* The job ledger: the runner, the bulk endpoint and the config row, on a
\* database whose statements do not raise.
Next ==
    \/ \E y \in Years, m \in Months, a \in AccountArgs : RunStart(y, m, a)
    \/ RunStep
    \/ \E data \in BulkPayloads : create_bulk_snapshots(data)
    \/ init_db

Spec == Init /\ [][Next]_vars

\* The archive and its reading routes.
NextArchive ==
    \/ PostArchive
    \/ \E inv \in ArchiveInvoices : get_snapshot(inv)
    \/ \E args \in SearchArgs, backend \in Backends : search_snapshots(args, backend)

SpecArchive == Init /\ [][NextArchive]_vars

\* Overlapping POST /api/snapshot requests on a database whose statements
\* raise only for a constraint.
SpecRace == Init /\ [][PostStep]_vars

\* The same, where a commit may raise and a writer may give up on a lock.
NextPostFault == PostStep \/ PostFault

SpecPostFault == Init /\ [][NextPostFault]_vars

\* The whole service: every route, the runner and init_db.
NextService ==
    \/ ServiceCall
    \/ \E y \in Years, m \in Months, a \in {NoAccounts, AccountList(<<"620547">>)} :
          RunStart(y, m, a)
    \/ RunStep
    \/ init_db

SpecService == Init /\ [][NextService]_vars

\* The same, where a database statement of the runner may raise.
NextFault == Next \/ RunFault

SpecFault == Init /\ [][NextFault]_vars

\* The runner is a sequential function: once called it runs to its end.
SpecFair == Spec /\ WF_vars(RunStep)

\* One invocation of the cron script, on a database whose statements do
\* not raise.
NextCron ==
    \/ \E args \in MainArgs, now \in Clocks : MainStart(args, now)
    \/ MainCall
    \/ RunStep
    \/ MainFinish

SpecCron == InitCron /\ [][NextCron]_vars

\* Overlapping writers of the scheduler config.
SpecWriters == Init /\ [][WriterStep]_vars

(***************************************************************************)
(* Claims about POST /api/snapshot, checked under SpecIngest.              *)
(***************************************************************************)
Complete(data) == DOMAIN data # {} /\ missing(data) = <<>>

RowsOf(table, inv) == {i \in DOMAIN table : table[i].invoice_number = inv}

Stored(table, inv) == RowsOf(table, inv) # {}

StoreUnchanged == snapshots' = snapshots /\ line_items' = line_items

WellFormed(data) ==
    /\ "total_amount" \in DOMAIN data => FloatOk(data["total_amount"])
    /\ \A k \in MoneyDefaults : FloatOk(Get(data, k, Num(0)))
    /\ \A i \in DOMAIN Get(data, "line_items", <<>>) : LineItemBuilds(data["line_items"][i])

\* C1 as stated: every request whose invoice_number is that of a stored
\* snapshot is answered 409 and leaves the store as it was.
C1_AnyDuplicateIs409 ==
    [][( /\ create_snapshot(req')
         /\ "invoice_number" \in DOMAIN req'
         /\ Stored(snapshots, req'["invoice_number"]) )
       => (resp'.status = 409 /\ StoreUnchanged)]_vars

\* C1 amended: a request that carries every required field and whose
\* invoice_number is that of a stored snapshot is answered 409, the store is
\* left as it was, and it holds exactly one snapshot with that invoice_number;
\* a request with a stored invoice_number that lacks a required field is
\* answered 400 and leaves the store as it was too.
C1_DuplicateRejected ==
    [][( /\ create_snapshot(req')
         /\ "invoice_number" \in DOMAIN req'
         /\ Stored(snapshots, req'["invoice_number"]) )
       => /\ resp'.status = IF Complete(req') THEN 409 ELSE 400
          /\ StoreUnchanged
          /\ Cardinality(RowsOf(snapshots', req'["invoice_number"])) = 1]_vars

\* A complete duplicate submission has been answered 409 while the snapshot
\* of the first submission is stored.
C1_Witness ==
    /\ resp.route = "create_snapshot"
    /\ resp.status = 409
    /\ Complete(req)
    /\ Stored(snapshots, req["invoice_number"])

\* C9 as stated (for payloads whose values are well formed): a payload with
\* the seven required fields and a fresh invoice_number is answered 201 and
\* adds exactly one snapshot row, the omitted optional fields at their defaults.
C9_RequiredFieldsAccepted ==
    [][( /\ create_snapshot(req')
         /\ Complete(req')
         /\ WellFormed(req')
         /\ ~Stored(snapshots, req'["invoice_number"]) )
       => /\ resp'.status = 201
          /\ Len(snapshots') = Len(snapshots) + 1
          /\ resp'.body[2] = snapshots'[Len(snapshots')].id
          /\ "company_name" \notin DOMAIN req'
                 => snapshots'[Len(snapshots')].company_name = "Unknown"
          /\ "user_count" \notin DOMAIN req'
                 => snapshots'[Len(snapshots')].user_count = 0]_vars

\* C10 as stated: a request that lacks a required field or carries a
\* malformed one is answered with a 4xx status and leaves the store as it was.
C10_BadRequestIs4xx ==
    [][( /\ create_snapshot(req')
         /\ (~Complete(req') \/ ~WellFormed(req')) )
       => (resp'.status \in 400..499 /\ StoreUnchanged)]_vars

(***************************************************************************)
(* Claims about run_scheduled_snapshots and the job ledger.                *)
(***************************************************************************)
Started == run.pc # "idle"

\* The committed row of the job of the run.
RunJob == jobs[run.job_id]

\* The run came to its end through line 117: no exception reached the
\* handler of line 131.
EndedNormally ==
    /\ Started
    /\ run.pc \in {"config", "returned"}
    /\ run.exception = Null
    /\ run.companies # <<>>

SuccessAnswers == {201, 409}

Successes == {k \in DOMAIN run.calls : run.calls[k].answer \in SuccessAnswers}

FailedCalls == SelectSeq(run.calls, LAMBDA c : c.answer \notin SuccessAnswers)

\* The account numbers of the records of a list that carry one, in order.
AccountsIn(companies) ==
    LET withAccount == SelectSeq(companies, LAMBDA c : "account_number" \in DOMAIN c)
    IN  [k \in DOMAIN withAccount |-> withAccount[k]["account_number"]]

CalledAccounts == [k \in DOMAIN run.calls |-> run.calls[k].account_number]

\* C2: a run over N >= 1 resolved companies, each of them answered by the
\* billing service, K of them with a success, ends with the job completed,
\* completed_companies = N, success_count = K, failed_count = N - K,
\* success = (K = N) and N - K error strings.
C2_FinalCounts ==
    ( /\ EndedNormally
      /\ Len(run.calls) = Len(run.companies) )
    => LET N == Len(run.companies)
           K == Cardinality(Successes)
       IN  /\ RunJob.status = "completed"
           /\ RunJob.total_companies = N
           /\ RunJob.completed_companies = N
           /\ RunJob.success = Some(K = N)
           /\ RunJob.output # None
           /\ RunJob.output[1].success_count = K
           /\ RunJob.output[1].failed_count = N - K
           /\ Len(RunJob.output[1].errors) = N - K

\* A run over two companies has ended with one success and one failure.
C2_Witness ==
    /\ EndedNormally
    /\ run.pc = "returned"
    /\ Len(run.companies) = 2
    /\ Len(run.calls) = 2
    /\ Cardinality(Successes) = 1
    /\ RunJob.status = "completed"

\* C3 as stated: the status of a job changes only from running to completed
\* or to failed, and never again afterwards.
C3_StatusMovesOnce ==
    [][\A j \in DOMAIN jobs :
          jobs'[j].status # jobs[j].status
            => (jobs[j].status = "running" /\ jobs'[j].status \in {"completed", "failed"})]_vars

\* C4 as stated: every job row in status running eventually reaches
\* completed or failed.
C4_RunningJobsFinish ==
    \A j \in 1..MaxJobs :
        (j \in DOMAIN jobs /\ jobs[j].status = "running")
          ~> (j \in DOMAIN jobs /\ jobs[j].status \in {"completed", "failed"})

\* C5 as stated: when the run has ended, every record of the resolved list
\* got exactly one call, in the order of the list.
C5_EveryCompanyCalled ==
    EndedNormally
    => /\ Len(run.calls) = Len(run.companies)
       /\ \A k \in DOMAIN run.calls :
              /\ "account_number" \in DOMAIN run.companies[k]
              /\ run.calls[k].account_number = run.companies[k]["account_number"]

\* C5 amended: no answer of the billing service, and no exception of the
\* call, stops the batch; after each iteration the calls made are exactly one
\* per record passed that carries an account number, in the order of the
\* resolved list, and a record without account number gets no call; the run
\* ends only after the last record.
C5_FaultIsolation ==
    /\ (Started /\ run.pc \in {"loop", "config"}) \/ EndedNormally
          => /\ CalledAccounts = AccountsIn(SubSeq(run.companies, 1, run.i - 1))
             /\ run.pc # "loop" => run.i = Len(run.companies) + 1
    /\ (Started /\ run.exception # Null) => run.calls = <<>>

\* A run has ended in which the first call failed and a second was made.
C5_Witness ==
    /\ EndedNormally
    /\ Len(run.calls) = 2
    /\ run.calls[1].answer \notin SuccessAnswers

FetchFailedTexts == {"Failed to fetch companies from Codex: 404",
                     "Failed to fetch companies from Codex: 500"}

\* C6: in a run without explicit list whose list-all call is answered with
\* another status than 200, the billing service is never called, and the run
\* returns success = false with the job failed, success = false, the error
\* text recorded and completed_at set.
C6_DirectoryFailureAborts ==
    (Started /\ run.exception \in FetchFailedTexts)
    => /\ ~(run.account_numbers.given /\ run.account_numbers.list # <<>>)
       /\ run.calls = <<>>
       /\ run.pc \in {"except", "returned"}
       /\ run.pc = "except" => RunJob.status = "running"
       /\ run.pc = "returned"
            => /\ RunJob.status = "failed"
               /\ RunJob.success = Some(FALSE)
               /\ RunJob.error = run.exception
               /\ RunJob.completed_at # Null
               /\ run.ret # None
               /\ run.ret[1][2] = FALSE

\* A run has returned after its list-all call was answered 500.
C6_Witness ==
    /\ Started
    /\ run.pc = "returned"
    /\ run.exception = "Failed to fetch companies from Codex: 500"
    /\ RunJob.status = "failed"

\* C7: a run whose resolved company set is empty returns success = true
\* with the job completed, success = true, total_companies = 0 and
\* completed_companies = 0, and makes no call to the billing service; the
\* loop is only entered with a company set that is not empty.
C7_EmptySetCompletes ==
    /\ (Started /\ run.pc = "returned" /\ run.exception = Null /\ run.companies = <<>>)
          => /\ RunJob.status = "completed"
             /\ RunJob.success = Some(TRUE)
             /\ RunJob.total_companies = 0
             /\ RunJob.completed_companies = 0
             /\ RunJob.completed_at # Null
             /\ run.ret # None
             /\ run.ret[1][2] = TRUE
             /\ run.calls = <<>>
    /\ (Started /\ run.pc \in {"loop", "config"}) => run.companies # <<>>

\* A run over an explicit list none of whose identifiers the directory
\* knows has returned.
C7_Witness ==
    /\ Started
    /\ run.pc = "returned"
    /\ run.exception = Null
    /\ run.companies = <<>>
    /\ run.account_numbers.list # <<>>
    /\ RunJob.status = "completed"

\* C8: the successes counted are exactly the calls answered 201 or 409;
\* every other answer, and every call that raised, is one failure and one
\* error string that starts with the account number of that call; a run
\* whose calls were all answered 409 ends with success = true and no error.
C8_SuccessIs201Or409 ==
    Started
    => /\ run.success_count = Cardinality(Successes)
       /\ run.failed_count = Len(FailedCalls)
       /\ Len(run.errors) = Len(FailedCalls)
       /\ \A m \in DOMAIN run.errors : run.errors[m][1] = FailedCalls[m].account_number
       /\ ( /\ EndedNormally
            /\ \A k \in DOMAIN run.calls : run.calls[k].answer = 409 )
          => /\ RunJob.success = Some(TRUE)
             /\ RunJob.output[1].errors = <<>>
             /\ RunJob.output[1].failed_count = 0
             /\ run.pc = "returned" => run.ret[1][2] = TRUE

\* A run over two companies that were both already archived has returned.
C8_Witness ==
    /\ EndedNormally
    /\ run.pc = "returned"
    /\ Len(run.calls) = 2
    /\ \A k \in DOMAIN run.calls : run.calls[k].answer = 409
    /\ RunJob.success = Some(TRUE)

(***************************************************************************)
(* Claims about the reading routes, checked under SpecArchive.             *)
(***************************************************************************)
AmountFields == MoneyDefaults \cup {"total_amount"}
CountFields == {"user_count", "asset_count"}

\* What GET answers for the invoice equals what was submitted, field by field.
RoundTrip(data, body) ==
    /\ \A k \in AmountFields \cap DOMAIN data : body[k] = Float(data[k])
    /\ \A k \in CountFields \cap DOMAIN data : body[k] = data[k]
    /\ body.billing_data = data["billing_data_json"]

\* C11: whenever POST /api/snapshot accepts a payload (201), GET
\* /api/snapshot/<invoice_number> on the resulting store answers 200 with,
\* for every total, count and hours field of the payload, the value that
\* was submitted, and with billing_data equal to the submitted
\* billing_data_json.
C11_RoundTrip ==
    [][( /\ create_snapshot(req')
         /\ resp'.status = 201 )
       => LET r == GetSnapshotResult(snapshots', req'["invoice_number"])
          IN  r.status = 200 /\ RoundTrip(req', r.body)]_vars

\* The snapshots that match the filters of a search.
Matching(args) ==
    {i \in DOMAIN snapshots :
        /\ \A k \in {"account_number"} \cap DOMAIN args :
              snapshots[i].company_account_number = args[k]
        /\ \A k \in {"year"} \cap DOMAIN args : snapshots[i].billing_year = args[k]
        /\ \A k \in {"month"} \cap DOMAIN args : snapshots[i].billing_month = args[k]
        /\ \A k \in {"from_date"} \cap DOMAIN args : snapshots[i].archived_at >= args[k]
        /\ \A k \in {"to_date"} \cap DOMAIN args : snapshots[i].archived_at <= args[k]}

EffectiveLimit(args) ==
    IF "limit" \in DOMAIN args
      THEN (IF args["limit"] > 1000 THEN 1000 ELSE args["limit"])
      ELSE 100

Searched == resp.route = "search_snapshots"

\* C13: a search with integer limit and offset answers 200; the limit it
\* reports is the requested one clamped to 1000 (100 when absent); it
\* returns no more results than that limit, none when the offset is at or
\* beyond the number of matching snapshots, and the total it reports is the
\* number of snapshots that match the filters.
C13_SearchPaging ==
    Searched =>
       /\ resp.status = 200
       /\ resp.body.limit = EffectiveLimit(req)
       /\ Len(resp.body.results) <= EffectiveLimit(req)
       /\ ( /\ "offset" \in DOMAIN req
            /\ req["offset"] >= Cardinality(Matching(req)) ) => resp.body.results = << >>
       /\ resp.body.total = Cardinality(Matching(req))

(***************************************************************************)
(* Claims about overlapping POST /api/snapshot requests.                   *)
(***************************************************************************)
Answered(p) == posts[p].pc = "done"

\* Request p lost the race for its invoice number: its payload is one the
\* handler accepts on an empty store, and the row of another request is
\* stored under its invoice number.
LostRace(p) ==
    /\ Answered(p)
    /\ Complete(posts[p].data)
    /\ WellFormed(posts[p].data)
    /\ "invoice_date" \in DOMAIN posts[p].data
    /\ posts[p].status # 201
    /\ \E q \in DOMAIN posts \ {p} :
          /\ posts[q].status = 201
          /\ posts[q].data["invoice_number"] = posts[p].data["invoice_number"]

\* C12: at most one row is stored per invoice number, and a request that
\* lost the race for its invoice number was answered 409.
C12_LoserGets409 ==
    /\ \A inv \in Invoices : Cardinality(RowsOf(snapshots, inv)) <= 1
    /\ \A p \in DOMAIN posts : LostRace(p) => posts[p].status = 409

\* The stored rows that belong to request p.
SnapshotRowsOf(p) == {i \in DOMAIN snapshots : snapshots[i].id = posts[p].id}
LineItemRowsOf(p) == {k \in DOMAIN line_items : line_items[k].snapshot_id = posts[p].id}

LastRunFields == {"last_run_at", "last_run_status", "last_run_count", "last_run_log"}

\* Every value of the body has the type of its column.
WellTyped(data) == \A f \in {"day_of_month", "hour"} \cap DOMAIN data : data[f].t # "str"

\* The value the request asks for field f.
Requested(data, f) == IF f \in {"day_of_month", "hour"} THEN data[f].v ELSE data[f]

\* C14: a POST whose values have the types of their columns is answered
\* 200; every field present in the body takes the requested value, every
\* absent field keeps the value of the row (the column default when there
\* was no row), and the last-run fields are left as they were.
C14_PartialMerge ==
    [][( /\ scheduler_config("POST", req')
         /\ WellTyped(req') )
       => LET before == IF config = <<>> THEN NewConfig ELSE config[1]
          IN  /\ resp'.status = 200
              /\ Len(config') = 1
              /\ \A f \in ConfigFields :
                    config'[1][f] = IF f \in DOMAIN req' THEN Requested(req', f)
                                    ELSE before[f]
              /\ \A f \in LastRunFields : config'[1][f] = before[f]]_vars

\* Only `enabled` was posted, to a row whose other fields had been changed
\* and whose last run is recorded.
C14_Witness ==
    /\ resp.route = "scheduler_config"
    /\ resp.status = 200
    /\ req = [enabled |-> FALSE]
    /\ config # <<>>
    /\ config[1].enabled = FALSE
    /\ config[1].day_of_month = 28
    /\ config[1].snapshot_previous_month = FALSE
    /\ config[1].last_run_count = 2

\* C16, as stated: while the loop runs, the committed completed_companies
\* is the number of records of the resolved list already passed.
C16_ProgressPerRecord ==
    (Started /\ run.pc = "loop") => RunJob.completed_companies = run.i - 1

\* C16, amended: the k-th call to the billing service is made when the
\* committed completed_companies is k - 1, and k is committed in the same
\* iteration, before the next call, whatever the answer.
C16_ProgressPerCall ==
    [][( /\ Started
         /\ run.pc = "loop"
         /\ Len(run'.calls) = Len(run.calls) + 1 )
       => /\ jobs[run.job_id].completed_companies = Len(run.calls)
          /\ jobs'[run.job_id].completed_companies = Len(run.calls) + 1
          /\ jobs'[run.job_id].status = "running"]_vars

\* A record without account number was passed over, then a company was
\* called and its progress committed, and the loop is still running.
C16_Witness ==
    /\ Started
    /\ run.pc = "loop"
    /\ Len(run.companies) = 2
    /\ ~HasAccount(run.companies[1])
    /\ run.i = 3
    /\ Len(run.calls) = 1
    /\ run.calls[1].answer = 500
    /\ RunJob.completed_companies = 1

\* The records of the identifiers at the positions `found` of the list, in
\* the order of the list.
Picked(list, found) ==
    [k \in 1..Cardinality(found) |->
        [account_number |->
            list[CHOOSE n \in found : Cardinality({m \in found : m <= n}) = k]]]

\* C17: when the directory answers 200 for the identifiers at the
\* positions `found` of a non-empty explicit list, the resolved companies
\* are the records of exactly those identifiers in the caller's order, the
\* stored total is their number, and the misses add no error, count no
\* failure and do not make the job fail.
C17_ExplicitListResolution ==
    [][\A found \in SUBSET (1..MaxCompanies) :
          RunResolveList(found) =>
             /\ run'.pc \in {"loop", "returned"}
             /\ run'.companies = Picked(run.account_numbers.list, found)
             /\ jobs'[run.job_id].total_companies = Cardinality(found)
             /\ jobs'[run.job_id].status =
                    IF found = {} THEN "completed" ELSE "running"
             /\ jobs'[run.job_id].error = Null
             /\ run'.errors = <<>>
             /\ run'.failed_count = 0
             /\ run'.exception = Null]_vars

\* Of a list of two identifiers the directory knew only the second.
C17_Witness ==
    /\ Started
    /\ run.pc = "loop"
    /\ run.i = 1
    /\ Len(run.account_numbers.list) = 2
    /\ run.account_numbers.list[1] # run.account_numbers.list[2]
    /\ run.companies = <<[account_number |-> run.account_numbers.list[2]]>>
    /\ RunJob.total_companies = 1
    /\ RunJob.status = "running"

(***************************************************************************)
(* Claims about the runner on a database whose statements may raise,       *)
(* checked under SpecFault.                                                *)
(***************************************************************************)
\* The call has ended: it returned, or an exception left it.
Ended == run.pc \in {"returned", "raised"}

\* An exception reached the handler of line 131 during this call.
Caught == Started /\ run.exception # Null

C18_CountsNeverDecrease ==
    [][\A j \in DOMAIN jobs :
          /\ j \in DOMAIN jobs'
          /\ jobs'[j].total_companies >= jobs[j].total_companies
          /\ jobs'[j].completed_companies >= jobs[j].completed_companies
          /\ jobs'[j].failed_companies >= jobs[j].failed_companies]_vars

\* A job over two companies was finalized, then the query of line 120
\* raised and the handler stored the failure: the counts are still 2.
C18_Witness ==
    /\ Caught
    /\ run.pc = "returned"
    /\ Len(run.calls) = 2
    /\ RunJob.status = "failed"
    /\ RunJob.output # None
    /\ RunJob.total_companies = 2
    /\ RunJob.completed_companies = 2

(***************************************************************************)
(* Claims about the whole service, checked under SpecService.              *)
(***************************************************************************)
\* C20: no operation of the service removes or changes a stored snapshot
\* row or a stored line-item row.
C20_WriteOnce ==
    [][/\ \A i \in DOMAIN snapshots :
             i \in DOMAIN snapshots' /\ snapshots'[i] = snapshots[i]
       /\ \A k \in DOMAIN line_items :
             k \in DOMAIN line_items' /\ line_items'[k] = line_items[k]]_vars

\* Two snapshots are stored, one with a line item; a run has ended, a bulk
\* job and the config row exist, and the CSV of a snapshot was downloaded.
C20_Witness ==
    /\ Len(snapshots) = 2
    /\ Len(line_items) = 1
    /\ run.pc = "returned"
    /\ Len(jobs) = 2
    /\ config # <<>>
    /\ resp.route = "download_snapshot_csv"
    /\ resp.status = 200

(***************************************************************************)
(* Claims about the scheduler config row.                                  *)
(***************************************************************************)
\* C21: the table scheduled_snapshots never holds more than one row.
C21_AtMostOneConfig == Len(config) <= 1

\* C22: once a run over a non-empty company set has been finalized as
\* completed and the function has returned, the stored last_run_count of
\* the config row, when there is one, is the success count of the run.
C22_LastRunCountStored ==
    (EndedNormally /\ run.pc = "returned" /\ config # <<>>)
       => config[1].last_run_count = run.success_count

\* The run was called with account_numbers = [].
EmptyListRun == Started /\ run.account_numbers = AccountList(<<>>)

\* No job row stores an empty list of target accounts.
NoEmptyTarget ==
    \A j \in DOMAIN jobs : jobs[j].target_account_numbers # Some(<<>>)

\* C23 as stated: a run called with account_numbers = [] stores null as the
\* target accounts of its job, no job row of either kind stores an empty
\* list, and the job of such a run is never one over zero companies.
C23_EmptyListNeverZero ==
    /\ NoEmptyTarget
    /\ EmptyListRun => RunJob.target_account_numbers = None
    /\ (EmptyListRun /\ RunJob.status = "completed") => RunJob.total_companies > 0

\* C23 amended: a run called with account_numbers = [] stores null as the
\* target accounts of its job and no job row of either kind stores an
\* empty list; the company set of such a run is the answer of the list-all
\* call, so the job is over zero companies only when that answer is empty,
\* and a refused list-all call fails the job.
C23_EmptyListMeansAll ==
    /\ NoEmptyTarget
    /\ EmptyListRun => RunJob.target_account_numbers = None
    /\ (EmptyListRun /\ run.pc = "loop")
          => /\ run.companies \in CompanyLists \ {<<>>}
             /\ RunJob.total_companies = Len(run.companies)
    /\ (EmptyListRun /\ run.exception # Null /\ run.calls = <<>>)
          => run.exception \in FetchFailedTexts \cup {"ConnectionError"}

\* A run called with [] goes over the two companies the list-all call
\* returned, and a bulk job posted with [] is stored.
C23_Witness ==
    /\ EmptyListRun
    /\ Len(run.companies) = 2
    /\ RunJob.total_companies = 2
    /\ \E j \in DOMAIN jobs :
          /\ jobs[j].job_type = "bulk"
          /\ req = [year |-> 2025, month |-> 10, account_numbers |-> <<>>]
          /\ jobs[j].target_account_numbers = None

\* The terminal markers of a job row agree with its status.
MarkersAgree(job) ==
    /\ job.status = "running" <=> job.completed_at = Null
    /\ job.status = "running" <=> job.success = None
    /\ job.status = "failed" => job.success = Some(FALSE)
    /\ job.output # None => job.status # "running"

\* C24: in every committed job row, status is running exactly when
\* completed_at is null and exactly when success is null, a failed job has
\* success = false, and output is set only on a job that is not running.
C24_MarkersAgree == \A j \in DOMAIN jobs : MarkersAgree(jobs[j])

\* A job finalized as completed and then marked failed by the handler
\* (its output is kept), next to a bulk job that is still running.
C24_Witness ==
    \E j, k \in DOMAIN jobs :
       /\ jobs[j].status = "failed"
       /\ jobs[j].output # None
       /\ jobs[j].success = Some(FALSE)
       /\ jobs[k].status = "running"
       /\ jobs[k].job_type = "bulk"

\* The records among the first n of the resolved list that carry an
\* account_number.
WithAccount(n) == {k \in 1..n : HasAccount(run.companies[k])}

\* C25: in every committed job row completed_companies <= total_companies;
\* in a run, a record of the resolved list without account_number gets no
\* billing call and is counted neither as a success nor as a failure: the
\* calls made and the successes and failures counted are those of the
\* records with an account_number passed so far.
C25_CompletedAtMostTotal ==
    /\ \A j \in DOMAIN jobs : jobs[j].completed_companies <= jobs[j].total_companies
    /\ (Started /\ run.pc = "loop")
          => /\ Len(run.calls) = Cardinality(WithAccount(run.i - 1))
             /\ run.success_count + run.failed_count = Len(run.calls)
             /\ \A k \in DOMAIN run.calls : run.calls[k].account_number # Null

\* A completed job over two records, one of them without account_number:
\* completed_companies stays below total_companies.
C25_Witness ==
    /\ EndedNormally
    /\ \E k \in DOMAIN run.companies : run.companies[k] = Nameless
    /\ RunJob.status = "completed"
    /\ RunJob.total_companies = 2
    /\ RunJob.completed_companies = 1

\* The script was started with the command line main.args.
Invoked == main.pc # "idle"

\* The cases in which the script is to stop before the call: no config
\* row; config disabled and not both of --year and --month given; neither
\* --accounts nor --all given and snapshot_all_companies false; --dry-run.
\* An option counts as given when its value is true for Python (a year
\* or month other than 0, a text of accounts other than the empty one).
NoRunCase ==
    \/ config = <<>>
    \/ ~config[1].enabled /\ ~Manual(main.args)
    \/ ~AccountsGiven(main.args) /\ ~main.args.all /\ ~config[1].snapshot_all_companies
    \/ main.args.dry_run

====
